---- MODULE Spec2Model ----
(***************************************************************************)
(* Model of the FIFA rivalry tracker backend (src/backend/main.py).        *)
(*                                                                         *)
(* The store holds two collections, players and matches, each a function   *)
(* from the ids of the stored documents to the documents.  Every request   *)
(* handler is a coroutine: it runs from one `await` on the store to the    *)
(* next, so each store call is one atomic step of the handler.  A step is  *)
(* an operator from the store and the request's own state to the store and *)
(* request state after it.  Under Spec a handler runs all its steps as one *)
(* action (requests are served one after the other); under SpecConc the    *)
(* steps of a handler interleave with those of a concurrent delete_player. *)
(* SpecRead adds the read handlers (lists of matches, head-to-head, the    *)
(* detailed stats of a player), the renaming of players and the calendar   *)
(* day of a match; SpecResult is get_result called on its own.             *)
(* SpecRecords and SpecEdits serve two record_match and two update_match   *)
(* requests at a time, SpecNames the requests on players' names store call *)
(* by store call, and SpecLog the requests that delete nothing.            *)
(***************************************************************************)
EXTENDS Integers, FiniteSets, Sequences, TLC

VARIABLES players, matches, nextPlayerId, nextMatchId, today, req

vars == <<players, matches, nextPlayerId, nextMatchId, today, req>>

\* ------------------------------------------------------------------ bounds
\* ids are generated fresh by the store and never reused: at most MaxPlayers
\* players are ever registered and at most MaxMatches matches ever recorded
MaxPlayers == 2
MaxMatches == 2
\* the same for the matches recorded while requests interleave (SpecConc)
MaxConcMatches == 1
\* goal counts offered to the handlers range over -1 .. MaxGoal (MatchCreate
\* and MatchUpdate declare plain ints, so a negative count reaches the code)
MaxGoal == 1
\* the calendar days the clock goes through
MaxDay == 2
\* the goal counts get_result is called with on its own range over
\* 0 .. MaxResultGoal
MaxResultGoal == 7

PlayerIds == 1..MaxPlayers
MatchIds == 1..MaxMatches
Goals == (0 - 1)..MaxGoal
\* player names: as many as players can ever be registered
Names == 1..MaxPlayers
Slots == {1, 2}

\* ------------------------------------------------------------- documents
\* a player document as register_player creates it
NewPlayer(name) ==
  [name |-> name, total_matches |-> 0, total_goals_scored |-> 0,
   total_goals_conceded |-> 0, goal_difference |-> 0, wins |-> 0,
   losses |-> 0, draws |-> 0, points |-> 0]

\* a match document as record_match stores it: match.dict() and the date.
\* The date is datetime.now(): its calendar day is kept; within a day the
\* matches are in the order of their ids, the order they were inserted in
MatchDoc(p1, p2, g1, g2, date) ==
  [player1_id |-> p1, player2_id |-> p2, player1_goals |-> g1,
   player2_goals |-> g2, date |-> date]

NoMatch == MatchDoc(0, 0, 0, 0, 0)

\* the empty collection
NoDocs == [i \in {} |-> 0]

\* collection operations of the store
InsertDoc(coll, id, doc) == [i \in DOMAIN coll \cup {id} |->
                               IF i = id THEN doc ELSE coll[i]]
DeleteDocs(coll, ids) == [i \in DOMAIN coll \ ids |-> coll[i]]

\* IncPlayer as a "$set": the fields of the document are overwritten
IncPlayer_Set(coll, id, inc) ==
  IF id \notin DOMAIN coll THEN coll
  ELSE [coll EXCEPT ![id] =
          [@ EXCEPT !.total_matches = inc.total_matches,
                    !.total_goals_scored = inc.total_goals_scored,
                    !.total_goals_conceded = inc.total_goals_conceded,
                    !.goal_difference = inc.goal_difference,
                    !.wins = inc.wins,
                    !.losses = inc.losses,
                    !.draws = inc.draws,
                    !.points = inc.points]]

\* update_one({"_id": id}, {"$inc": inc}): adds inc field by field in one
\* atomic document update; matches nothing when the document is absent
IncPlayer(coll, id, inc) ==
  IF id \notin DOMAIN coll THEN coll
  ELSE [coll EXCEPT ![id] =
          [@ EXCEPT !.total_matches = @ + inc.total_matches,
                    !.total_goals_scored = @ + inc.total_goals_scored,
                    !.total_goals_conceded = @ + inc.total_goals_conceded,
                    !.goal_difference = @ + inc.goal_difference,
                    !.wins = @ + inc.wins,
                    !.losses = @ + inc.losses,
                    !.draws = @ + inc.draws,
                    !.points = @ + inc.points]]

\* ---------------------------------------------------------- pure helpers
\* get_result with `<=` for `<` in player2's branch
get_result_LossOnDraw(player1_goals, player2_goals, is_player1) ==
  IF is_player1
  THEN IF player1_goals > player2_goals
       THEN [win |-> 1, loss |-> 0, draw |-> 0]
       ELSE IF player1_goals < player2_goals
            THEN [win |-> 0, loss |-> 1, draw |-> 0]
            ELSE [win |-> 0, loss |-> 0, draw |-> 1]
  ELSE IF player2_goals > player1_goals
       THEN [win |-> 1, loss |-> 0, draw |-> 0]
       ELSE IF player2_goals <= player1_goals
            THEN [win |-> 0, loss |-> 1, draw |-> 0]
            ELSE [win |-> 0, loss |-> 0, draw |-> 1]

\* get_result of app/utils/helpers.py
helpers_get_result(player1_goals, player2_goals, is_player1) ==
  IF is_player1
  THEN IF player1_goals > player2_goals
       THEN [win |-> 1, loss |-> 0, draw |-> 0]
       ELSE IF player1_goals < player2_goals
            THEN [win |-> 0, loss |-> 1, draw |-> 0]
            ELSE [win |-> 0, loss |-> 0, draw |-> 1]
  ELSE IF player2_goals > player1_goals
       THEN [win |-> 1, loss |-> 0, draw |-> 0]
       ELSE IF player2_goals < player1_goals
            THEN [win |-> 0, loss |-> 1, draw |-> 0]
            ELSE [win |-> 0, loss |-> 0, draw |-> 1]

\* get_result of backend/main.py
get_result(player1_goals, player2_goals, is_player1) ==
  IF is_player1
  THEN IF player1_goals > player2_goals
       THEN [win |-> 1, loss |-> 0, draw |-> 0]
       ELSE IF player1_goals < player2_goals
            THEN [win |-> 0, loss |-> 1, draw |-> 0]
            ELSE [win |-> 0, loss |-> 0, draw |-> 1]
  ELSE IF player2_goals > player1_goals
       THEN [win |-> 1, loss |-> 0, draw |-> 0]
       ELSE IF player2_goals < player1_goals
            THEN [win |-> 0, loss |-> 1, draw |-> 0]
            ELSE [win |-> 0, loss |-> 0, draw |-> 1]

\* RecordInc with a win worth two points
RecordInc_WinTwoPoints(goals_scored, goals_conceded) ==
  [total_matches |-> 1,
   total_goals_scored |-> goals_scored,
   total_goals_conceded |-> goals_conceded,
   goal_difference |-> goals_scored - goals_conceded,
   wins |-> IF goals_scored > goals_conceded THEN 1 ELSE 0,
   losses |-> IF goals_scored < goals_conceded THEN 1 ELSE 0,
   draws |-> IF goals_scored = goals_conceded THEN 1 ELSE 0,
   points |-> IF goals_scored > goals_conceded THEN 2
              ELSE IF goals_scored = goals_conceded THEN 1 ELSE 0]

\* RecordInc counting a draw when the side scored no less than it conceded
RecordInc_DrawOnWin(goals_scored, goals_conceded) ==
  [total_matches |-> 1,
   total_goals_scored |-> goals_scored,
   total_goals_conceded |-> goals_conceded,
   goal_difference |-> goals_scored - goals_conceded,
   wins |-> IF goals_scored > goals_conceded THEN 1 ELSE 0,
   losses |-> IF goals_scored < goals_conceded THEN 1 ELSE 0,
   draws |-> IF goals_scored >= goals_conceded THEN 1 ELSE 0,
   points |-> IF goals_scored > goals_conceded THEN 3
              ELSE IF goals_scored = goals_conceded THEN 1 ELSE 0]

\* the "$inc" document record_match builds for one side of a new match
RecordInc(goals_scored, goals_conceded) ==
  [total_matches |-> 1,
   total_goals_scored |-> goals_scored,
   total_goals_conceded |-> goals_conceded,
   goal_difference |-> goals_scored - goals_conceded,
   wins |-> IF goals_scored > goals_conceded THEN 1 ELSE 0,
   losses |-> IF goals_scored < goals_conceded THEN 1 ELSE 0,
   draws |-> IF goals_scored = goals_conceded THEN 1 ELSE 0,
   points |-> IF goals_scored > goals_conceded THEN 3
              ELSE IF goals_scored = goals_conceded THEN 1 ELSE 0]

\* NegativeGoals looking at player1's goals only
NegativeGoals_FirstOnly(player1_goals, player2_goals) == player1_goals < 0

\* update_match: `if match_update.player1_goals < 0 or ...player2_goals < 0`
NegativeGoals(player1_goals, player2_goals) ==
  player1_goals < 0 \/ player2_goals < 0

\* NoChanges with a changed sign in the second comparison
NoChanges_SecondChanged(player1_goals_diff, player2_goals_diff) ==
  player1_goals_diff = 0 /\ player2_goals_diff # 0

\* update_match: `if player1_goals_diff == 0 and player2_goals_diff == 0`
NoChanges(player1_goals_diff, player2_goals_diff) ==
  player1_goals_diff = 0 /\ player2_goals_diff = 0

\* UpdateInc leaving the points as they were
UpdateInc_PointsKept(goals_diff, opponent_goals_diff, old_result, new_result) ==
  LET wins_diff == new_result.win - old_result.win
      losses_diff == new_result.loss - old_result.loss
      draws_diff == new_result.draw - old_result.draw IN
  [total_matches |-> 0,
   total_goals_scored |-> goals_diff,
   total_goals_conceded |-> opponent_goals_diff,
   goal_difference |-> goals_diff - opponent_goals_diff,
   wins |-> wins_diff,
   losses |-> losses_diff,
   draws |-> draws_diff,
   points |-> 0]

\* the "$inc" document update_match builds for one side of an edited match
UpdateInc(goals_diff, opponent_goals_diff, old_result, new_result) ==
  LET wins_diff == new_result.win - old_result.win
      losses_diff == new_result.loss - old_result.loss
      draws_diff == new_result.draw - old_result.draw IN
  [total_matches |-> 0,
   total_goals_scored |-> goals_diff,
   total_goals_conceded |-> opponent_goals_diff,
   goal_difference |-> goals_diff - opponent_goals_diff,
   wins |-> wins_diff,
   losses |-> losses_diff,
   draws |-> draws_diff,
   points |-> wins_diff * 3 + draws_diff]

\* update_match: "Skip player update if there are no changes"
SkipPlayerUpdate(inc) ==
  /\ inc.total_goals_scored = 0 /\ inc.total_goals_conceded = 0
  /\ inc.wins = 0 /\ inc.losses = 0 /\ inc.draws = 0

\* PlayersMissing with `and` for `or`
PlayersMissing_Both(found1, found2) == ~found1 /\ ~found2

\* record_match: `if not player1 or not player2`
PlayersMissing(found1, found2) == ~found1 \/ ~found2

\* NameTaken when every stored player has the name
NameTaken_All(coll, name) == \A i \in DOMAIN coll : coll[i].name = name

\* players.find_one({"name": name})
NameTaken(coll, name) == \E i \in DOMAIN coll : coll[i].name = name

\* the body of a response the model does not look into
NoBody == [kind |-> "none"]

\* ---------------------------------------------------------------- requests
\* the state of a request: its operation, where it stands (pc), its
\* arguments, the locals it carries from one store call to the next, the
\* HTTP status it ends with and the number of store writes it has issued
IdleReq ==
  [op |-> "idle", pc |-> "idle", p1 |-> 0, p2 |-> 0, g1 |-> 0, g2 |-> 0,
   id |-> 0, name |-> 0, side |-> 0, found1 |-> FALSE, match |-> NoMatch,
   status |-> 0, writes |-> 0, body |-> NoBody]

RecordMatchReq(player1_id, player2_id, player1_goals, player2_goals) ==
  [IdleReq EXCEPT !.op = "record_match", !.pc = "rm_find1",
                  !.p1 = player1_id, !.p2 = player2_id,
                  !.g1 = player1_goals, !.g2 = player2_goals]

RegisterPlayerReq(name) ==
  [IdleReq EXCEPT !.op = "register_player", !.pc = "rp_find", !.name = name]

UpdateMatchReq(match_id, player1_goals, player2_goals) ==
  [IdleReq EXCEPT !.op = "update_match", !.pc = "um_find", !.id = match_id,
                  !.g1 = player1_goals, !.g2 = player2_goals]

DeleteMatchReq(match_id) ==
  [IdleReq EXCEPT !.op = "delete_match", !.pc = "dm_find", !.id = match_id]

DeletePlayerReq(player_id) ==
  [IdleReq EXCEPT !.op = "delete_player", !.pc = "dp_find", !.id = player_id]

UpdatePlayerReq(player_id, name) ==
  [IdleReq EXCEPT !.op = "update_player", !.pc = "up_find", !.id = player_id,
                  !.name = name]

HeadToHeadReq(player1_id, player2_id) ==
  [IdleReq EXCEPT !.op = "get_head_to_head_stats", !.pc = "hh_read",
                  !.p1 = player1_id, !.p2 = player2_id]

PlayerStatsReq(player_id) ==
  [IdleReq EXCEPT !.op = "get_player_detailed_stats", !.pc = "ps_read",
                  !.id = player_id]

MatchesReq == [IdleReq EXCEPT !.op = "get_matches", !.pc = "gm_read"]

PlayerMatchesReq(player_id) ==
  [IdleReq EXCEPT !.op = "get_player_matches", !.pc = "pm_read",
                  !.id = player_id]

\* the store as one value
DB ==
  [players |-> players, matches |-> matches, nextPlayerId |-> nextPlayerId,
   nextMatchId |-> nextMatchId, today |-> today]

\* the result of a step: the store and the request after it
Out(d, r) == [db |-> d, r |-> r]

\* the handler returns or raises: its arguments and locals are gone, what is
\* left is the response (its status, the id of the document it is about) and
\* the number of store writes the request issued
Finish(r, status) ==
  [IdleReq EXCEPT !.op = r.op, !.pc = "done", !.id = r.id,
                  !.status = status, !.writes = r.writes]

\* a read returns or raises: what is left is its arguments, its status and
\* the body of its response
FinishRead(r, status, body) ==
  [Finish(r, status) EXCEPT !.p1 = r.p1, !.p2 = r.p2, !.body = body]

\* ------------------------------------------------------------ record_match
\* POST /matches: players.find_one(player1_id)
RecordMatch_find1(d, r) ==
  Out(d, [r EXCEPT !.pc = "rm_find2", !.found1 = r.p1 \in DOMAIN d.players])

\* players.find_one(player2_id), then the check of both lookups (404)
RecordMatch_find2(d, r) ==
  Out(d, IF PlayersMissing(r.found1, r.p2 \in DOMAIN d.players)
         THEN Finish(r, 404)
         ELSE [r EXCEPT !.pc = "rm_insert"])

\* match_dict["date"] = datetime.now(); matches.insert_one(match_dict)
RecordMatch_insert(d, r) ==
  Out([d EXCEPT !.matches = InsertDoc(@, d.nextMatchId,
                              MatchDoc(r.p1, r.p2, r.g1, r.g2, d.today)),
                !.nextMatchId = @ + 1],
      [r EXCEPT !.pc = "rm_inc", !.side = 1, !.id = d.nextMatchId,
                !.writes = @ + 1])

\* one round of the loop `for player, goals_scored, goals_conceded in [...]`:
\* players.update_one({"_id": player["_id"]}, {"$inc": ...})
RecordMatch_inc(d, r) ==
  LET pid == IF r.side = 1 THEN r.p1 ELSE r.p2
      goals_scored == IF r.side = 1 THEN r.g1 ELSE r.g2
      goals_conceded == IF r.side = 1 THEN r.g2 ELSE r.g1 IN
  Out([d EXCEPT !.players = IncPlayer(@, pid,
                              RecordInc(goals_scored, goals_conceded))],
      IF r.side = 1 THEN [r EXCEPT !.side = 2, !.writes = @ + 1]
      ELSE [r EXCEPT !.pc = "rm_fetch", !.writes = @ + 1])

\* matches.find_one(inserted_id) and match_helper: the response.  A match
\* removed in the meantime makes match_helper raise (500)
RecordMatch_fetch(d, r) ==
  Out(d, Finish(r, IF r.id \in DOMAIN d.matches THEN 200 ELSE 500))

\* --------------------------------------------------------- register_player
\* POST /players: players.find_one({"name": name}); a duplicate is refused
RegisterPlayer_find(d, r) ==
  Out(d, IF NameTaken(d.players, r.name) THEN Finish(r, 400)
         ELSE [r EXCEPT !.pc = "rp_insert"])

\* players.insert_one(player_data) with every aggregate 0
RegisterPlayer_insert(d, r) ==
  Out([d EXCEPT !.players = InsertDoc(@, d.nextPlayerId, NewPlayer(r.name)),
                !.nextPlayerId = @ + 1],
      [r EXCEPT !.pc = "rp_fetch", !.id = d.nextPlayerId, !.writes = @ + 1])

\* players.find_one(inserted_id) and player_helper: the response.  A player
\* removed in the meantime makes player_helper raise (500)
RegisterPlayer_fetch(d, r) ==
  Out(d, Finish(r, IF r.id \in DOMAIN d.players THEN 200 ELSE 500))

\* ------------------------------------------------------------ update_match
\* PUT /matches/{match_id}: matches.find_one, the validation of the new
\* goals and the computation of the goal differences.  Every HTTPException
\* raised inside the handler's try block, the 404 of a missing match
\* included, is caught by `except Exception` and raised again with status 400
UpdateMatch_find(d, r) ==
  Out(d, IF r.id \notin DOMAIN d.matches THEN Finish(r, 400)
         ELSE LET match == d.matches[r.id]
                  player1_goals_diff == r.g1 - match.player1_goals
                  player2_goals_diff == r.g2 - match.player2_goals IN
              IF NegativeGoals(r.g1, r.g2) THEN Finish(r, 400)
              ELSE IF NoChanges(player1_goals_diff, player2_goals_diff)
                   THEN Finish([r EXCEPT !.match = match], 200)
                   ELSE [r EXCEPT !.match = match, !.pc = "um_set"])

\* matches.update_one({"_id": match_id}, {"$set": {player1_goals,
\* player2_goals}}); matched_count == 0 when the match is gone (400)
UpdateMatch_set(d, r) ==
  IF r.id \in DOMAIN d.matches
  THEN Out([d EXCEPT !.matches[r.id] = [@ EXCEPT !.player1_goals = r.g1,
                                                 !.player2_goals = r.g2]],
           [r EXCEPT !.pc = "um_player", !.side = 1, !.writes = @ + 1])
  ELSE Out(d, Finish([r EXCEPT !.writes = @ + 1], 400))

\* the "$inc" of the current round of update_match's loop over the two sides,
\* computed from the match as it was read at the start of the request
UpdateMatch_delta(r) ==
  LET match == r.match
      player1_goals_diff == r.g1 - match.player1_goals
      player2_goals_diff == r.g2 - match.player2_goals
      player_id == IF r.side = 1 THEN match.player1_id ELSE match.player2_id
      is_player1 == player_id = match.player1_id IN
  UpdateInc(IF r.side = 1 THEN player1_goals_diff ELSE player2_goals_diff,
            IF r.side = 1 THEN player2_goals_diff ELSE player1_goals_diff,
            get_result(match.player1_goals, match.player2_goals, is_player1),
            get_result(r.g1, r.g2, is_player1))

\* the round after this one, or the final fetch after the second side
UpdateMatch_continue(r) ==
  IF r.side = 1 THEN [r EXCEPT !.pc = "um_player", !.side = 2]
  ELSE [r EXCEPT !.pc = "um_fetch"]

\* UpdateMatch_player raising "Player not found" for a missing player
UpdateMatch_player_Raise(d, r) ==
  LET player_id == IF r.side = 1 THEN r.match.player1_id
                   ELSE r.match.player2_id IN
  Out(d, IF player_id \notin DOMAIN d.players THEN Finish(r, 400)
         ELSE IF SkipPlayerUpdate(UpdateMatch_delta(r))
              THEN UpdateMatch_continue(r)
              ELSE [r EXCEPT !.pc = "um_inc"])

\* one round of the loop: players.find_one(player_id); a missing player is
\* logged and skipped, and so is a player with nothing to change
UpdateMatch_player(d, r) ==
  LET player_id == IF r.side = 1 THEN r.match.player1_id
                   ELSE r.match.player2_id IN
  Out(d, IF player_id \notin DOMAIN d.players THEN UpdateMatch_continue(r)
         ELSE IF SkipPlayerUpdate(UpdateMatch_delta(r))
              THEN UpdateMatch_continue(r)
              ELSE [r EXCEPT !.pc = "um_inc"])

\* players.update_one({"_id": player_id}, {"$inc": ...})
UpdateMatch_inc(d, r) ==
  LET player_id == IF r.side = 1 THEN r.match.player1_id
                   ELSE r.match.player2_id IN
  Out([d EXCEPT !.players = IncPlayer(@, player_id, UpdateMatch_delta(r))],
      UpdateMatch_continue([r EXCEPT !.writes = @ + 1]))

\* matches.find_one(match_id) and match_helper: the response; the 404 of a
\* match gone in the meantime leaves the handler as a 400
UpdateMatch_fetch(d, r) ==
  Out(d, Finish(r, IF r.id \in DOMAIN d.matches THEN 200 ELSE 400))

\* ------------------------------------------------------------ delete_match
\* DELETE /matches/{match_id}: matches.find_one; 404 when there is none
DeleteMatch_find(d, r) ==
  Out(d, IF r.id \notin DOMAIN d.matches THEN Finish(r, 404)
         ELSE [r EXCEPT !.pc = "dm_delete"])

\* DeleteMatch_delete removing every match of the deleted match's player1
DeleteMatch_delete_Many(d, r) ==
  Out([d EXCEPT !.matches =
         DeleteDocs(@, {m \in DOMAIN d.matches :
                          r.id \in DOMAIN d.matches
                            => d.matches[m].player1_id
                                 = d.matches[r.id].player1_id})],
      Finish([r EXCEPT !.writes = @ + 1],
             IF r.id \in DOMAIN d.matches THEN 200 ELSE 400))

\* matches.delete_one({"_id": match_id}); deleted_count == 0 gives 400
DeleteMatch_delete(d, r) ==
  Out([d EXCEPT !.matches = DeleteDocs(@, {r.id})],
      Finish([r EXCEPT !.writes = @ + 1],
             IF r.id \in DOMAIN d.matches THEN 200 ELSE 400))

\* ----------------------------------------------------------- delete_player
\* DELETE /player/{player_id}: players.find_one; 404 when there is none
DeletePlayer_find(d, r) ==
  Out(d, IF r.id \notin DOMAIN d.players THEN Finish(r, 404)
         ELSE [r EXCEPT !.pc = "dp_matches"])

\* DeletePlayer_matches clearing the aggregates of the players of the
\* matches it deletes
DeletePlayer_matches_Clearing(d, r) ==
  LET gone == {m \in DOMAIN d.matches : \/ d.matches[m].player1_id = r.id
                                        \/ d.matches[m].player2_id = r.id} IN
  Out([d EXCEPT !.matches = DeleteDocs(@, gone),
                !.players =
                  [q \in DOMAIN @ |->
                     IF \E m \in gone : q \in {d.matches[m].player1_id,
                                                d.matches[m].player2_id}
                     THEN NewPlayer(@[q].name) ELSE @[q]]],
      [r EXCEPT !.pc = "dp_player", !.writes = @ + 1])

\* matches.delete_many({"$or": [{player1_id}, {player2_id}]})
DeletePlayer_matches(d, r) ==
  Out([d EXCEPT !.matches = DeleteDocs(@, {m \in DOMAIN d.matches :
                                             \/ d.matches[m].player1_id = r.id
                                             \/ d.matches[m].player2_id = r.id})],
      [r EXCEPT !.pc = "dp_player", !.writes = @ + 1])

\* players.delete_one({"_id": player_id}); deleted_count == 0 gives 400
DeletePlayer_player(d, r) ==
  Out([d EXCEPT !.players = DeleteDocs(@, {r.id})],
      Finish([r EXCEPT !.writes = @ + 1],
             IF r.id \in DOMAIN d.players THEN 200 ELSE 400))

\* ----------------------------------------------------------- update_player
\* PUT /player/{player_id}: players.find_one; 404 when there is none
UpdatePlayer_find(d, r) ==
  Out(d, IF r.id \notin DOMAIN d.players THEN Finish(r, 404)
         ELSE [r EXCEPT !.pc = "up_set"])

\* players.update_one({"_id": player_id}, {"$set": {"name": name}});
\* modified_count == 0 (no such player, or the name is the same) gives 400
UpdatePlayer_set(d, r) ==
  IF r.id \in DOMAIN d.players /\ d.players[r.id].name # r.name
  THEN Out([d EXCEPT !.players[r.id] = [@ EXCEPT !.name = r.name]],
           [r EXCEPT !.pc = "up_fetch", !.writes = @ + 1])
  ELSE Out(d, Finish([r EXCEPT !.writes = @ + 1], 400))

\* players.find_one(player_id) and player_helper: the response.  A player
\* removed in the meantime makes player_helper raise (500)
UpdatePlayer_fetch(d, r) ==
  Out(d, Finish(r, IF r.id \in DOMAIN d.players THEN 200 ELSE 500))

\* ------------------------------------------------------------------- reads
\* the sum of f over the set S
RECURSIVE Total(_, _)
Total(f, S) ==
  IF S = {} THEN 0
  ELSE LET x == CHOOSE x \in S : TRUE IN f[x] + Total(f, S \ {x})

\* a quotient n / d as the code guards it: `n / d if d > 0 else 0`
Ratio(n, d) == IF d > 0 THEN [num |-> n, den |-> d] ELSE [num |-> 0, den |-> 1]

\* the ids S of collection ms as find().sort("date", 1) returns them
RECURSIVE ByDate(_, _)
ByDate(ms, S) ==
  IF S = {} THEN <<>>
  ELSE LET first == CHOOSE m \in S :
                      \A n \in S : \/ ms[m].date < ms[n].date
                                   \/ ms[m].date = ms[n].date /\ m <= n IN
       <<first>> \o ByDate(ms, S \ {first})

\* the same for sort("date", -1)
ByDateDescending(ms, S) ==
  LET up == ByDate(ms, S) IN [i \in 1..Len(up) |-> up[Len(up) + 1 - i]]

\* the name match_helper gives a player that find_one does not return
UnknownPlayer == 0

\* match_helper: the match with the names of its players looked up
match_helper(d, id) ==
  LET match == d.matches[id]
      player1_name == IF match.player1_id \in DOMAIN d.players
                      THEN d.players[match.player1_id].name
                      ELSE UnknownPlayer
      player2_name == IF match.player2_id \in DOMAIN d.players
                      THEN d.players[match.player2_id].name
                      ELSE UnknownPlayer IN
  [id |-> id, player1_name |-> player1_name, player2_name |-> player2_name,
   player1_goals |-> match.player1_goals,
   player2_goals |-> match.player2_goals, date |-> match.date]

\* GET /matches: every match, the latest first, through match_helper
MatchList(d, S) ==
  LET ids == ByDateDescending(d.matches, S) IN
  [kind |-> "matches",
   list |-> [i \in 1..Len(ids) |-> match_helper(d, ids[i])]]

Matches_read(d, r) ==
  Out(d, FinishRead(r, 200, MatchList(d, DOMAIN d.matches)))

\* GET /player/{player_id}/matches: the matches with the player on a side
PlayerMatches_read(d, r) ==
  Out(d, FinishRead(r, 200,
           MatchList(d, {m \in DOMAIN d.matches :
                           \/ d.matches[m].player1_id = r.id
                           \/ d.matches[m].player2_id = r.id})))

\* Player1Won comparing the goals the same way for both orders of the pair
Player1Won_Unflipped(match, player1_id) ==
  match.player1_goals > match.player2_goals

\* the branches of get_head_to_head_stats' loop: whether the match counts
\* for stats["player1_wins"], for stats["player2_wins"], and what it adds to
\* stats["player1_goals"] and stats["player2_goals"]
Player1Won(match, player1_id) ==
  IF match.player1_id = player1_id
  THEN match.player1_goals > match.player2_goals
  ELSE match.player1_goals < match.player2_goals

Player2Won(match, player1_id) ==
  IF match.player1_id = player1_id
  THEN match.player1_goals < match.player2_goals
  ELSE match.player1_goals > match.player2_goals

\* Player1Goals taking player1_goals for both orders of the pair
Player1Goals_Unflipped(match, player1_id) == match.player1_goals

Player1Goals(match, player1_id) ==
  IF match.player1_id = player1_id THEN match.player1_goals
  ELSE match.player2_goals

Player2Goals(match, player1_id) ==
  IF match.player1_id = player1_id THEN match.player2_goals
  ELSE match.player1_goals

\* GET /head-to-head/{player1_id}/{player2_id}: the loop over the matches of
\* the pair, in either order, from player1's perspective
HeadToHeadStats(d, player1_id, player2_id) ==
  LET found == {m \in DOMAIN d.matches :
                  \/ /\ d.matches[m].player1_id = player1_id
                     /\ d.matches[m].player2_id = player2_id
                  \/ /\ d.matches[m].player1_id = player2_id
                     /\ d.matches[m].player2_id = player1_id}
      total_matches == Cardinality(found)
      player1_wins ==
        Cardinality({m \in found : Player1Won(d.matches[m], player1_id)})
      player2_wins ==
        Cardinality({m \in found : Player2Won(d.matches[m], player1_id)})
      draws ==
        Cardinality({m \in found : /\ ~Player1Won(d.matches[m], player1_id)
                                   /\ ~Player2Won(d.matches[m], player1_id)})
      player1_goals ==
        Total([m \in found |-> Player1Goals(d.matches[m], player1_id)], found)
      player2_goals ==
        Total([m \in found |-> Player2Goals(d.matches[m], player1_id)], found)
  IN
  [kind |-> "head_to_head",
   player1_name |-> d.players[player1_id].name,
   player2_name |-> d.players[player2_id].name,
   total_matches |-> total_matches,
   player1_wins |-> player1_wins, player2_wins |-> player2_wins,
   draws |-> draws,
   player1_goals |-> player1_goals, player2_goals |-> player2_goals,
   player1_win_rate |-> Ratio(player1_wins, total_matches),
   player2_win_rate |-> Ratio(player2_wins, total_matches),
   player1_avg_goals |-> Ratio(player1_goals, total_matches),
   player2_avg_goals |-> Ratio(player2_goals, total_matches)]

\* both players are looked up first: 404 when one is missing
HeadToHead_read(d, r) ==
  Out(d, IF r.p1 \notin DOMAIN d.players \/ r.p2 \notin DOMAIN d.players
         THEN FinishRead(r, 404, NoBody)
         ELSE FinishRead(r, 200, HeadToHeadStats(d, r.p1, r.p2)))

\* a dict from opponent names to counts, in the order of insertion
\* dict[name] = dict.get(name, 0) + 1
Bump(dict, name) ==
  IF \E i \in 1..Len(dict) : dict[i].name = name
  THEN [i \in 1..Len(dict) |->
          IF dict[i].name = name THEN [dict[i] EXCEPT !.count = @ + 1]
          ELSE dict[i]]
  ELSE Append(dict, [name |-> name, count |-> 1])

\* Python's None
None == [none |-> TRUE]

\* `max(dict.items(), key=lambda x: x[1]) if dict else None`: the first item,
\* in the order of insertion, with the greatest count
Highest(dict) ==
  IF dict = <<>> THEN None
  ELSE dict[CHOOSE i \in 1..Len(dict) :
              /\ \A j \in 1..Len(dict) : dict[j].count <= dict[i].count
              /\ \A j \in 1..(i - 1) : dict[j].count < dict[i].count]

\* the goals of player_id and of its opponent in a match, as the loops of
\* get_player_detailed_stats take them: the player is player1 whenever
\* match["player1_id"] == player_id
PlayerGoals(match, player_id) ==
  IF match.player1_id = player_id THEN match.player1_goals
  ELSE match.player2_goals
OpponentGoals(match, player_id) ==
  IF match.player1_id = player_id THEN match.player2_goals
  ELSE match.player1_goals
OpponentId(match, player_id) ==
  IF match.player1_id = player_id THEN match.player2_id
  ELSE match.player1_id

\* the first loop of get_player_detailed_stats from its i-th match on: the
\* opponent is looked up and the win or loss tallied under opponent["name"];
\* with no opponent found, opponent["name"] raises TypeError for a match
\* that is won or lost (a drawn match does not evaluate it)
RECURSIVE TallyOpponents(_, _, _, _, _)
TallyOpponents(d, player_id, ids, i, acc) ==
  IF i > Len(ids) \/ acc.raised THEN acc
  ELSE LET match == d.matches[ids[i]]
           opponent_id == OpponentId(match, player_id)
           mine == PlayerGoals(match, player_id)
           theirs == OpponentGoals(match, player_id) IN
       TallyOpponents(d, player_id, ids, i + 1,
         IF mine = theirs THEN acc
         ELSE IF opponent_id \notin DOMAIN d.players
              THEN [acc EXCEPT !.raised = TRUE]
              ELSE IF mine > theirs
                   THEN [acc EXCEPT !.wins_against =
                           Bump(@, d.players[opponent_id].name)]
                   ELSE [acc EXCEPT !.losses_against =
                           Bump(@, d.players[opponent_id].name)])

\* the loop `for date, day_matches in groupby(matches, key=date)` from the
\* i-th match on: the running totals over all matches so far, and one point
\* after the last match of every run of matches of one date
RECURSIVE DailyWinrate(_, _, _, _, _, _)
DailyWinrate(ms, player_id, ids, i, total_matches, total_wins) ==
  IF i > Len(ids) THEN <<>>
  ELSE LET match == ms[ids[i]]
           matches_now == total_matches + 1
           wins_now == total_wins
                         + IF PlayerGoals(match, player_id)
                                > OpponentGoals(match, player_id)
                           THEN 1 ELSE 0 IN
       IF i = Len(ids) \/ ms[ids[i + 1]].date # match.date
       THEN <<[date |-> match.date, winrate |-> Ratio(wins_now, matches_now)]>>
              \o DailyWinrate(ms, player_id, ids, i + 1, matches_now, wins_now)
       ELSE DailyWinrate(ms, player_id, ids, i + 1, matches_now, wins_now)

\* the matches of a player as get_player_detailed_stats finds them
MatchesOf(d, player_id) ==
  ByDate(d.matches, {m \in DOMAIN d.matches :
                       \/ d.matches[m].player1_id = player_id
                       \/ d.matches[m].player2_id = player_id})

\* the body of GET /player/{player_id}/stats, given the two tallies
PlayerDetailedStats(d, player_id, tally) ==
  LET player == d.players[player_id] IN
  [kind |-> "player_stats",
   name |-> player.name,
   total_matches |-> player.total_matches,
   total_goals_scored |-> player.total_goals_scored,
   total_goals_conceded |-> player.total_goals_conceded,
   wins |-> player.wins, losses |-> player.losses, draws |-> player.draws,
   points |-> player.points,
   win_rate |-> Ratio(player.wins, player.total_matches),
   average_goals_scored |->
     Ratio(player.total_goals_scored, player.total_matches),
   average_goals_conceded |->
     Ratio(player.total_goals_conceded, player.total_matches),
   highest_wins_against |-> Highest(tally.wins_against),
   highest_losses_against |-> Highest(tally.losses_against),
   winrate_over_time |->
     DailyWinrate(d.matches, player_id, MatchesOf(d, player_id), 1, 0, 0)]

\* GET /player/{player_id}/stats: 404 for a missing player, 500 when the
\* tally raises
PlayerStats_read(d, r) ==
  IF r.id \notin DOMAIN d.players THEN Out(d, FinishRead(r, 404, NoBody))
  ELSE LET tally == TallyOpponents(d, r.id, MatchesOf(d, r.id), 1,
                      [wins_against |-> <<>>, losses_against |-> <<>>,
                       raised |-> FALSE]) IN
       Out(d, IF tally.raised THEN FinishRead(r, 500, NoBody)
              ELSE FinishRead(r, 200, PlayerDetailedStats(d, r.id, tally)))

\* -------------------------------------------------------------- scheduling
\* the next store call of request r and what follows it up to the next one
StepOf(d, r) ==
  CASE r.pc = "rm_find1" -> RecordMatch_find1(d, r)
    [] r.pc = "rm_find2" -> RecordMatch_find2(d, r)
    [] r.pc = "rm_insert" -> RecordMatch_insert(d, r)
    [] r.pc = "rm_inc" -> RecordMatch_inc(d, r)
    [] r.pc = "rm_fetch" -> RecordMatch_fetch(d, r)
    [] r.pc = "rp_find" -> RegisterPlayer_find(d, r)
    [] r.pc = "rp_insert" -> RegisterPlayer_insert(d, r)
    [] r.pc = "rp_fetch" -> RegisterPlayer_fetch(d, r)
    [] r.pc = "um_find" -> UpdateMatch_find(d, r)
    [] r.pc = "um_set" -> UpdateMatch_set(d, r)
    [] r.pc = "um_player" -> UpdateMatch_player(d, r)
    [] r.pc = "um_inc" -> UpdateMatch_inc(d, r)
    [] r.pc = "um_fetch" -> UpdateMatch_fetch(d, r)
    [] r.pc = "dm_find" -> DeleteMatch_find(d, r)
    [] r.pc = "dm_delete" -> DeleteMatch_delete(d, r)
    [] r.pc = "dp_find" -> DeletePlayer_find(d, r)
    [] r.pc = "dp_matches" -> DeletePlayer_matches(d, r)
    [] r.pc = "dp_player" -> DeletePlayer_player(d, r)
    [] r.pc = "up_find" -> UpdatePlayer_find(d, r)
    [] r.pc = "up_set" -> UpdatePlayer_set(d, r)
    [] r.pc = "up_fetch" -> UpdatePlayer_fetch(d, r)
    [] r.pc = "hh_read" -> HeadToHead_read(d, r)
    [] r.pc = "ps_read" -> PlayerStats_read(d, r)
    [] r.pc = "gm_read" -> Matches_read(d, r)
    [] r.pc = "pm_read" -> PlayerMatches_read(d, r)

\* the whole handler: every step of request r, up to its response
RECURSIVE Run(_, _)
Run(d, r) ==
  IF r.pc = "done" THEN Out(d, r)
  ELSE LET o == StepOf(d, r) IN Run(o.db, o.r)

\* slot s is free for a new request
Free(s) == req[s].pc \in {"idle", "done"}

InFlight(s) == ~Free(s)

\* requests in flight that will still take a fresh match id / player id
PendingMatches ==
  Cardinality({t \in Slots : req[t].pc \in {"rm_find2", "rm_insert"}})
PendingPlayers == Cardinality({t \in Slots : req[t].pc = "rp_insert"})

\* the store generates fresh ids; the model stops at maxMatches / MaxPlayers
IdsLeft(r, maxMatches) ==
  /\ r.op = "record_match" => nextMatchId + PendingMatches <= maxMatches
  /\ r.op = "register_player" => nextPlayerId + PendingPlayers <= MaxPlayers

\* Names are interchangeable, so the k-th registration is offered the first k
\* names only: every name in use and one name that is not
NamesOffered == 1..nextPlayerId

Commit(s, o) ==
  /\ players' = o.db.players
  /\ matches' = o.db.matches
  /\ nextPlayerId' = o.db.nextPlayerId
  /\ nextMatchId' = o.db.nextMatchId
  /\ today' = o.db.today
  /\ req' = [req EXCEPT ![s] = o.r]

\* request r is received by slot s and runs up to its first store call
Begin(s, r) ==
  /\ Free(s)
  /\ IdsLeft(r, MaxConcMatches)
  /\ r.op = "register_player" => r.name \in NamesOffered
  /\ Commit(s, StepOf(DB, r))

\* the request in slot s runs up to its next store call
Continue(s) == InFlight(s) /\ Commit(s, StepOf(DB, req[s]))

Init ==
  /\ players = NoDocs
  /\ matches = NoDocs
  /\ nextPlayerId = 1
  /\ nextMatchId = 1
  /\ today = 1
  /\ req = [s \in Slots |-> IdleReq]

\* ------------------------------------------------------------- operations
\* each operation is its request received by a free slot s and served to its
\* response: every step of the handler
register_player(s, name) ==
  /\ Free(s)
  /\ name \in NamesOffered
  /\ IdsLeft(RegisterPlayerReq(name), MaxMatches)
  /\ Commit(s, Run(DB, RegisterPlayerReq(name)))

record_match(s, player1_id, player2_id, player1_goals, player2_goals) ==
  /\ Free(s)
  /\ IdsLeft(RecordMatchReq(player1_id, player2_id, player1_goals,
                            player2_goals), MaxMatches)
  /\ Commit(s, Run(DB, RecordMatchReq(player1_id, player2_id, player1_goals,
                                      player2_goals)))

update_match(s, match_id, player1_goals, player2_goals) ==
  /\ Free(s)
  /\ Commit(s, Run(DB, UpdateMatchReq(match_id, player1_goals, player2_goals)))

delete_match(s, match_id) ==
  /\ Free(s)
  /\ Commit(s, Run(DB, DeleteMatchReq(match_id)))

delete_player(s, player_id) ==
  /\ Free(s)
  /\ Commit(s, Run(DB, DeletePlayerReq(player_id)))

update_player(s, player_id, name) ==
  /\ Free(s)
  /\ Commit(s, Run(DB, UpdatePlayerReq(player_id, name)))

\* the operations on players' aggregates and on matches, served one after
\* the other
Next ==
  \/ \E name \in Names : register_player(1, name)
  \/ \E a \in PlayerIds, b \in PlayerIds, g1 \in Goals, g2 \in Goals :
       record_match(1, a, b, g1, g2)
  \/ \E m \in MatchIds, g1 \in Goals, g2 \in Goals : update_match(1, m, g1, g2)
  \/ \E m \in MatchIds : delete_match(1, m)
  \/ \E p \in PlayerIds : delete_player(1, p)

Spec == Init /\ [][Next]_vars

\* the requests a client may send
Requests ==
  {RegisterPlayerReq(name) : name \in Names}
  \cup {RecordMatchReq(a, b, g1, g2) :
          a \in PlayerIds, b \in PlayerIds, g1 \in Goals, g2 \in Goals}
  \cup {UpdateMatchReq(m, g1, g2) : m \in MatchIds, g1 \in Goals, g2 \in Goals}
  \cup {DeleteMatchReq(m) : m \in MatchIds}
  \cup {DeletePlayerReq(p) : p \in PlayerIds}

\* slot 1 serves any request store call by store call while slot 2 serves
\* delete_player requests: the steps of the two interleave.  A handler that
\* is not interrupted is one of the interleavings: update_match(1, ...) is
\* that run of update_match as a single step
NextConc ==
  \/ \E r \in Requests : Begin(1, r)
  \/ \E p \in PlayerIds : Begin(2, DeletePlayerReq(p))
  \/ \E s \in Slots : Continue(s)
  \/ \E m \in MatchIds, g1 \in Goals, g2 \in Goals : update_match(1, m, g1, g2)

SpecConc == Init /\ [][NextConc]_vars

\* ------------------------------------------------------------------- reads
get_head_to_head_stats(s, player1_id, player2_id) ==
  /\ Free(s)
  /\ Commit(s, Run(DB, HeadToHeadReq(player1_id, player2_id)))

get_player_detailed_stats(s, player_id) ==
  /\ Free(s)
  /\ Commit(s, Run(DB, PlayerStatsReq(player_id)))

get_matches(s) ==
  /\ Free(s)
  /\ Commit(s, Run(DB, MatchesReq))

get_player_matches(s, player_id) ==
  /\ Free(s)
  /\ Commit(s, Run(DB, PlayerMatchesReq(player_id)))

\* the clock passes midnight: datetime.now() is on the next calendar day
midnight ==
  /\ today < MaxDay
  /\ today' = today + 1
  /\ UNCHANGED <<players, matches, nextPlayerId, nextMatchId, req>>

\* the goal counts of the matches the reads are checked on
Scores == 0..MaxGoal

\* the reads, over the stores that registrations, renamings, matches
\* recorded on different days and a deletion of a player lead to.  Slot 1
\* serves the requests one after the other; the first record_match may also
\* be served store call by store call, with a delete_player (slot 2) served
\* between two of its store calls
NextRead ==
  \/ \E name \in Names : register_player(1, name)
  \/ \E a \in PlayerIds, b \in PlayerIds, g1 \in Scores, g2 \in Scores :
       record_match(1, a, b, g1, g2)
  \/ \E a \in PlayerIds, b \in PlayerIds, g1 \in Scores, g2 \in Scores :
       Begin(1, RecordMatchReq(a, b, g1, g2))
  \/ Continue(1)
  \/ \E p \in DOMAIN players : InFlight(1) /\ delete_player(2, p)
  \/ \E p \in PlayerIds, name \in Names : update_player(1, p, name)
  \/ midnight
  \/ \E a \in PlayerIds, b \in PlayerIds : get_head_to_head_stats(1, a, b)
  \/ \E p \in PlayerIds : get_player_detailed_stats(1, p)
  \/ get_matches(1)
  \/ \E p \in PlayerIds : get_player_matches(1, p)

SpecRead == Init /\ [][NextRead]_vars

\* -------------------------------------------------------------- get_result
\* a call of get_result, by both of its copies, on its own
GetResultCall(player1_goals, player2_goals, is_player1) ==
  [IdleReq EXCEPT !.op = "get_result", !.pc = "call", !.g1 = player1_goals,
                  !.g2 = player2_goals,
                  !.side = IF is_player1 THEN 1 ELSE 2]

InitResult ==
  /\ players = NoDocs
  /\ matches = NoDocs
  /\ nextPlayerId = 1
  /\ nextMatchId = 1
  /\ today = 1
  /\ \E g1 \in 0..MaxResultGoal, g2 \in 0..MaxResultGoal,
        is_player1 \in BOOLEAN :
        req = [s \in Slots |-> IF s = 1
                               THEN GetResultCall(g1, g2, is_player1)
                               ELSE IdleReq]

call_get_result ==
  /\ req[1].pc = "call"
  /\ req' = [req EXCEPT ![1] =
               [@ EXCEPT !.pc = "done",
                         !.body =
                           [kind |-> "result",
                            backend |->
                              get_result(req[1].g1, req[1].g2,
                                         req[1].side = 1),
                            helpers |->
                              helpers_get_result(req[1].g1, req[1].g2,
                                                 req[1].side = 1)]]]
  /\ UNCHANGED <<players, matches, nextPlayerId, nextMatchId, today>>

SpecResult == InitResult /\ [][call_get_result]_vars

\* ------------------------------------------------- two requests at a time
\* request r is received by slot s and runs up to its first store call
Receive(s, r) ==
  /\ Free(s)
  /\ IdsLeft(r, MaxMatches)
  /\ Commit(s, StepOf(DB, r))

\* two record_match requests for registered players served at a time: slot 2
\* receives its request while the request of slot 1 is being served, and the
\* store calls of the two interleave in every order
NextRecords ==
  \/ \E name \in Names : Free(2) /\ register_player(1, name)
  \/ \E a \in DOMAIN players, b \in DOMAIN players,
        g1 \in Scores, g2 \in Scores :
       Receive(1, RecordMatchReq(a, b, g1, g2))
  \/ \E a \in DOMAIN players, b \in DOMAIN players,
        g1 \in Scores, g2 \in Scores :
       InFlight(1) /\ Receive(2, RecordMatchReq(a, b, g1, g2))
  \/ \E s \in Slots : Continue(s)

SpecRecords == Init /\ [][NextRecords]_vars

\* two update_match requests served at a time, on the matches that requests
\* served one after the other recorded between two different players: slot 2
\* receives its request, the only one it serves, while a request of slot 1
\* is being served
NextEdits ==
  \/ \E name \in Names : Free(2) /\ register_player(1, name)
  \/ \E a \in DOMAIN players, b \in DOMAIN players,
        g1 \in Scores, g2 \in Scores :
       /\ a # b
       /\ Free(2)
       /\ nextMatchId <= MaxConcMatches
       /\ record_match(1, a, b, g1, g2)
  \/ \E m \in DOMAIN matches, g1 \in Scores, g2 \in Scores :
       Receive(1, UpdateMatchReq(m, g1, g2))
  \/ \E m \in DOMAIN matches, g1 \in Scores, g2 \in Scores :
       /\ InFlight(1)
       /\ req[2].pc = "idle"
       /\ Receive(2, UpdateMatchReq(m, g1, g2))
  \/ \E s \in Slots : Continue(s)

SpecEdits == Init /\ [][NextEdits]_vars

\* ------------------------------------------------------- without deletions
\* registrations, matches and edits of their scores, served one after the
\* other: nothing is ever deleted
NextLog ==
  \/ \E name \in Names : register_player(1, name)
  \/ \E a \in PlayerIds, b \in PlayerIds, g1 \in Goals, g2 \in Goals :
       record_match(1, a, b, g1, g2)
  \/ \E m \in MatchIds, g1 \in Goals, g2 \in Goals : update_match(1, m, g1, g2)

SpecLog == Init /\ [][NextLog]_vars

\* ------------------------------------------------------- players' names
\* registrations, renamings and deletions of players, served store call by
\* store call: slot 1 serves any of them while slot 2 serves registrations
NextNames ==
  \/ \E name \in NamesOffered : Receive(1, RegisterPlayerReq(name))
  \/ \E p \in PlayerIds, name \in Names : Receive(1, UpdatePlayerReq(p, name))
  \/ \E p \in PlayerIds : Receive(1, DeletePlayerReq(p))
  \/ \E name \in NamesOffered : Receive(2, RegisterPlayerReq(name))
  \/ \E s \in Slots : Continue(s)

SpecNames == Init /\ [][NextNames]_vars

\* ------------------------------------------------ calculate_tournament_stats
\* the loop of calculate_tournament_stats over the list of matches ms, from
\* its i-th match on, with the stats counted so far
RECURSIVE TournamentTally(_, _, _, _)
TournamentTally(player_id, ms, i, stats) ==
  IF i > Len(ms) THEN stats
  ELSE LET match == ms[i]
           player1_goals == match.player1_goals
           player2_goals == match.player2_goals
           is_player1 == player_id = match.player1_id
           result == helpers_get_result(player1_goals, player2_goals,
                                        is_player1) IN
       IF player_id \notin {match.player1_id, match.player2_id}
       THEN TournamentTally(player_id, ms, i + 1, stats)
       ELSE TournamentTally(player_id, ms, i + 1,
              [total_matches |-> stats.total_matches + 1,
               total_goals_scored |->
                 stats.total_goals_scored
                   + (IF is_player1 THEN player1_goals ELSE player2_goals),
               total_goals_conceded |->
                 stats.total_goals_conceded
                   + (IF is_player1 THEN player2_goals ELSE player1_goals),
               wins |-> stats.wins + result.win,
               losses |-> stats.losses + result.loss,
               draws |-> stats.draws + result.draw,
               points |-> stats.points + result.win * 3 + result.draw * 1])

\* calculate_tournament_stats(player_id, matches) of app/utils/helpers.py
calculate_tournament_stats(player_id, ms) ==
  LET stats == TournamentTally(player_id, ms, 1,
                 [total_matches |-> 0, total_goals_scored |-> 0,
                  total_goals_conceded |-> 0, wins |-> 0, losses |-> 0,
                  draws |-> 0, points |-> 0]) IN
  [total_matches |-> stats.total_matches,
   total_goals_scored |-> stats.total_goals_scored,
   total_goals_conceded |-> stats.total_goals_conceded,
   wins |-> stats.wins,
   losses |-> stats.losses,
   draws |-> stats.draws,
   points |-> stats.points,
   goal_difference |-> stats.total_goals_scored - stats.total_goals_conceded]
\* ------------------------------------------------------------------ claims
\* the aggregate fields of a player document
AggFields ==
  {"total_matches", "total_goals_scored", "total_goals_conceded",
   "goal_difference", "wins", "losses", "draws", "points"}

\* what one match adds to the aggregates of a side that scored `scored` and
\* conceded `conceded`
Contribution(scored, conceded) ==
  LET outcome == IF scored > conceded THEN "win"
                 ELSE IF scored < conceded THEN "loss" ELSE "draw" IN
  [f \in AggFields |->
     CASE f = "total_matches" -> 1
       [] f = "total_goals_scored" -> scored
       [] f = "total_goals_conceded" -> conceded
       [] f = "goal_difference" -> scored - conceded
       [] f = "wins" -> IF outcome = "win" THEN 1 ELSE 0
       [] f = "losses" -> IF outcome = "loss" THEN 1 ELSE 0
       [] f = "draws" -> IF outcome = "draw" THEN 1 ELSE 0
       [] f = "points" -> IF outcome = "win" THEN 3
                          ELSE IF outcome = "draw" THEN 1 ELSE 0]

NoContribution == [f \in AggFields |-> 0]

\* what match document m adds to the aggregates of player p: its
\* contribution as player1 plus its contribution as player2
MatchContribution(m, p) ==
  LET c1 == IF m.player1_id = p
            THEN Contribution(m.player1_goals, m.player2_goals)
            ELSE NoContribution
      c2 == IF m.player2_id = p
            THEN Contribution(m.player2_goals, m.player1_goals)
            ELSE NoContribution IN
  [f \in AggFields |-> c1[f] + c2[f]]

\* player document `after` is `before` with its aggregates grown by plus
\* and shrunk by minus, and nothing else changed
Shifted(before, after, plus, minus) ==
  /\ after.name = before.name
  /\ \A f \in AggFields : after[f] = before[f] + plus[f] - minus[f]

\* C1: every stored player satisfies points == 3*wins + draws,
\* goal_difference == total_goals_scored - total_goals_conceded and
\* total_matches == wins + losses + draws, in every reachable state, the
\* states between the store calls of a request included
PlayerInvariant ==
  \A p \in DOMAIN players :
    /\ players[p].points = 3 * players[p].wins + players[p].draws
    /\ players[p].goal_difference =
         players[p].total_goals_scored - players[p].total_goals_conceded
    /\ players[p].total_matches =
         players[p].wins + players[p].losses + players[p].draws

\* a record_match between two different players stands between its two
\* increments: the first player has the match, the second not yet
BetweenIncrements ==
  /\ req[1].op = "record_match" /\ req[1].pc = "rm_inc" /\ req[1].side = 2
  /\ req[1].p1 # req[1].p2
  /\ req[1].p1 \in DOMAIN players /\ req[1].p2 \in DOMAIN players
  /\ players[req[1].p1].total_matches = 1
  /\ players[req[1].p1].points = 3
  /\ players[req[1].p2].total_matches = 0

\* field f of the contributions of the stored matches ids to player p
RECURSIVE SumOver(_, _, _)
SumOver(ids, p, f) ==
  IF ids = {} THEN 0
  ELSE LET m == CHOOSE i \in ids : TRUE IN
       MatchContribution(matches[m], p)[f] + SumOver(ids \ {m}, p, f)

\* the aggregates of the stored players are those of the stored match log
AggregatesMatchLog ==
  \A p \in DOMAIN players : \A f \in AggFields :
    players[p][f] = SumOver(DOMAIN matches, p, f)

\* C2: after every completed record_match, update_match and delete_match the
\* aggregates of each stored player are consistent with the stored match log
ConsistentAfterMatchOps ==
  req[1].op \in {"record_match", "update_match", "delete_match"}
    => AggregatesMatchLog
\* the collections differ in document id only: id is new in `after`
OneInserted(before, after, id, doc) ==
  /\ id \notin DOMAIN before
  /\ DOMAIN after = DOMAIN before \cup {id}
  /\ after[id] = doc
  /\ \A i \in DOMAIN before : after[i] = before[i]

\* record_match(a, b, g1, g2) stored its match and each player got, for each
\* side of the match the player is on, that side's contribution
RecordedBySides(a, b, g1, g2) ==
  /\ OneInserted(matches, matches', req'[1].id, MatchDoc(a, b, g1, g2, today))
  /\ DOMAIN players' = DOMAIN players
  /\ \A p \in DOMAIN players :
       Shifted(players[p], players'[p],
               MatchContribution(MatchDoc(a, b, g1, g2, today), p), NoContribution)

\* record_match(a, b, g1, g2) stored its match, player a got exactly the
\* contribution of side 1, player b exactly that of side 2, nobody else any
RecordedOnceEach(a, b, g1, g2) ==
  /\ OneInserted(matches, matches', req'[1].id, MatchDoc(a, b, g1, g2, today))
  /\ DOMAIN players' = DOMAIN players
  /\ \A p \in DOMAIN players :
       /\ p = a => Shifted(players[p], players'[p], Contribution(g1, g2),
                           NoContribution)
       /\ p = b => Shifted(players[p], players'[p], Contribution(g2, g1),
                           NoContribution)
       /\ p \notin {a, b} => players'[p] = players[p]

\* C3 (as claimed): a successful record_match stores one new match and
\* changes each of the two players' aggregates by exactly one contribution
\* (total_matches +1, goals, goal_difference, one of wins/losses/draws +1,
\* points 3/1/0), and no other player's
RecordMatchOnceEach ==
  [][\A a \in PlayerIds, b \in PlayerIds, g1 \in Goals, g2 \in Goals :
       (req'[1].op = "record_match" /\ req'[1].status = 200
          /\ record_match(1, a, b, g1, g2))
         => RecordedOnceEach(a, b, g1, g2)]_vars

\* C3 (amended): a successful record_match stores one new match and changes
\* each player's aggregates by one contribution for each side of the match
\* the player is on: one for each of two different players, both for a
\* player recorded against itself; no other player's aggregates change
RecordMatchBySides ==
  [][\A a \in PlayerIds, b \in PlayerIds, g1 \in Goals, g2 \in Goals :
       (req'[1].op = "record_match" /\ req'[1].status = 200
          /\ record_match(1, a, b, g1, g2))
         => RecordedBySides(a, b, g1, g2)]_vars

\* a match between two different players was just recorded with a win for
\* player1: the winner has wins 1, points 3 and a positive goal difference,
\* the loser losses 1, points 0 and the opposite goal difference
RecordedWin ==
  /\ req[1].op = "record_match" /\ req[1].status = 200
  /\ req[1].id \in DOMAIN matches
  /\ LET m == matches[req[1].id] IN
       /\ m.player1_id # m.player2_id
       /\ m.player2_goals >= 0 /\ m.player1_goals > m.player2_goals
       /\ players[m.player1_id].wins = 1
       /\ players[m.player1_id].points = 3
       /\ players[m.player1_id].goal_difference = 1
       /\ players[m.player2_id].losses = 1
       /\ players[m.player2_id].points = 0
       /\ players[m.player2_id].goal_difference = 0 - 1

\* update_match(m, g1, g2) left the match with the new scores and every
\* player with the aggregates a match recorded with the new scores would
\* have given, in place of those of the old scores
EditedAsIfRecorded(m, g1, g2) ==
  LET old == matches[m]
      new == MatchDoc(old.player1_id, old.player2_id, g1, g2, old.date) IN
  /\ req'[1].status = 200
  /\ matches' = [matches EXCEPT ![m] = new]
  /\ DOMAIN players' = DOMAIN players
  /\ \A p \in DOMAIN players :
       Shifted(players[p], players'[p], MatchContribution(new, p),
               MatchContribution(old, p))

\* both players of stored match m are stored
BothPresent(m) ==
  /\ matches[m].player1_id \in DOMAIN players
  /\ matches[m].player2_id \in DOMAIN players

\* C4: after a successful update_match of a stored match whose two players
\* are present, each player's aggregates are what they would be had the
\* match been recorded with the new scores in the first place (goals and
\* goal_difference shift by the goal deltas, wins/losses/draws by new result
\* minus old result, points by 3*wins_delta + draws_delta, total_matches
\* stays)
UpdateMatchAsIfRecorded ==
  [][\A m \in MatchIds, g1 \in Goals, g2 \in Goals :
       (req'[1].op = "update_match" /\ m \in DOMAIN matches
          /\ g1 >= 0 /\ g2 >= 0 /\ BothPresent(m)
          /\ update_match(1, m, g1, g2))
         => EditedAsIfRecorded(m, g1, g2)]_vars

\* the same for the matches between two different players
UpdateMatchAsIfRecordedDistinct ==
  [][\A m \in MatchIds, g1 \in Goals, g2 \in Goals :
       (req'[1].op = "update_match" /\ m \in DOMAIN matches
          /\ g1 >= 0 /\ g2 >= 0 /\ BothPresent(m)
          /\ matches[m].player1_id # matches[m].player2_id
          /\ update_match(1, m, g1, g2))
         => EditedAsIfRecorded(m, g1, g2)]_vars
\* the store after update_match(m, g1, g2) served on store d
Edited(d, m, g1, g2) == Run(d, UpdateMatchReq(m, g1, g2)).db

\* editing stored match m to the scores (x1, x2) and then back to its
\* scores leaves the players and the matches as they are
RoundTrip(m, x1, x2) ==
  LET there == Edited(DB, m, x1, x2)
      back == Edited(there, m, matches[m].player1_goals,
                     matches[m].player2_goals) IN
  /\ back.players = players
  /\ back.matches = matches

\* C5: for every stored match and every pair of non-negative scores X,
\* update_match to X and then update_match back to the original scores
\* leaves every aggregate of every player and the stored scores as before
EditRoundTrip ==
  \A m \in DOMAIN matches, x1 \in 0..MaxGoal, x2 \in 0..MaxGoal :
    RoundTrip(m, x1, x2)

\* the same for the stored matches whose scores are not negative
EditRoundTripNonNegative ==
  \A m \in DOMAIN matches, x1 \in 0..MaxGoal, x2 \in 0..MaxGoal :
    (matches[m].player1_goals >= 0 /\ matches[m].player2_goals >= 0)
      => RoundTrip(m, x1, x2)

\* C6: record_match either increments both players or is reported as
\* failed: with player1 or player2 not found it reports 404, stores no match
\* and increments nobody; when it reports success the match is stored and
\* both players have their increment
RecordMatchAllOrNothing ==
  [][\A a \in PlayerIds, b \in PlayerIds, g1 \in Goals, g2 \in Goals :
       (req'[1].op = "record_match" /\ record_match(1, a, b, g1, g2))
         => IF a \notin DOMAIN players \/ b \notin DOMAIN players
            THEN /\ req'[1].status = 404
                 /\ req'[1].writes = 0
                 /\ UNCHANGED <<players, matches>>
            ELSE /\ req'[1].status = 200
                 /\ DOMAIN matches' = DOMAIN matches \cup {req'[1].id}
                 /\ req'[1].id \notin DOMAIN matches
                 /\ players'[a].total_matches
                      = players[a].total_matches + (IF a = b THEN 2 ELSE 1)
                 /\ players'[b].total_matches
                      = players[b].total_matches + (IF a = b THEN 2 ELSE 1)]_vars

\* a record_match was refused with 404 although a player is stored: nothing
\* was recorded and the stored player has no match
RecordRefused ==
  /\ req[1].op = "record_match" /\ req[1].status = 404
  /\ matches = NoDocs /\ nextMatchId = 1
  /\ \E p \in DOMAIN players : players[p].total_matches = 0

\* C7: update_match with both new goal values equal to the stored ones
\* performs no write: the match and every player's aggregates are unchanged
UpdateMatchSameScoresNoWrite ==
  [][\A m \in MatchIds, g1 \in Goals, g2 \in Goals :
       (req'[1].op = "update_match" /\ m \in DOMAIN matches
          /\ g1 = matches[m].player1_goals /\ g2 = matches[m].player2_goals
          /\ update_match(1, m, g1, g2))
         => /\ req'[1].writes = 0
            /\ UNCHANGED <<players, matches>>]_vars

\* an update_match of a stored match succeeded without a write
EditWithoutWrite ==
  /\ req[1].op = "update_match" /\ req[1].status = 200 /\ req[1].writes = 0
  /\ req[1].id \in DOMAIN matches

\* C8: update_match with a negative new goal count is rejected as invalid
\* input (400) before any mutation: the stored matches and all player
\* aggregates are unchanged
UpdateMatchNegativeRejected ==
  [][\A m \in MatchIds, g1 \in Goals, g2 \in Goals :
       (req'[1].op = "update_match" /\ (g1 < 0 \/ g2 < 0)
          /\ update_match(1, m, g1, g2))
         => /\ req'[1].status = 400
            /\ req'[1].writes = 0
            /\ UNCHANGED <<players, matches>>]_vars

\* an update_match was rejected while every match id resolves to a stored
\* match: the rejection is that of its goal values
EditRejected ==
  /\ req[1].op = "update_match" /\ req[1].status = 400 /\ req[1].writes = 0
  /\ DOMAIN matches = MatchIds

\* exactly one player of stored match m is stored
OnePresent(m) ==
  (matches[m].player1_id \in DOMAIN players)
    # (matches[m].player2_id \in DOMAIN players)

\* C9: when update_match changes the score of a match one of whose players
\* cannot be found, it does not fail: the new scores are persisted, the
\* missing side is skipped and the present player's aggregates are updated
\* by that player's deltas
UpdateMatchSkipsMissingPlayer ==
  [][\A m \in MatchIds, g1 \in Goals, g2 \in Goals :
       (req'[1].op = "update_match" /\ m \in DOMAIN matches
          /\ g1 >= 0 /\ g2 >= 0
          /\ <<g1, g2>> # <<matches[m].player1_goals, matches[m].player2_goals>>
          /\ OnePresent(m)
          /\ update_match(1, m, g1, g2))
         => /\ EditedAsIfRecorded(m, g1, g2)
            /\ req'[1].writes = 2]_vars

\* an update_match changed the score of a stored match of which exactly one
\* player is stored, with two writes: the match and the present player
EditedWithMissingPlayer ==
  /\ req[1].op = "update_match" /\ req[1].status = 200 /\ req[1].writes = 2
  /\ req[1].id \in DOMAIN matches
  /\ OnePresent(req[1].id)
  /\ Free(2)

\* C10: delete_match on a stored match removes exactly that match and
\* nothing else: every player's aggregates and every other stored match are
\* unchanged
DeleteMatchOnlyRemovesMatch ==
  [][\A m \in MatchIds :
       (req'[1].op = "delete_match" /\ m \in DOMAIN matches
          /\ delete_match(1, m))
         => /\ req'[1].status = 200
            /\ DOMAIN matches' = DOMAIN matches \ {m}
            /\ \A i \in DOMAIN matches' : matches'[i] = matches[i]
            /\ players' = players]_vars

\* a match was deleted, another match is still stored and its players still
\* count two matches each
DeletedOneOfTwo ==
  /\ req[1].op = "delete_match" /\ req[1].status = 200
  /\ Cardinality(DOMAIN matches) = 1
  /\ \E i \in DOMAIN matches :
       /\ matches[i].player1_id # matches[i].player2_id
       /\ players[matches[i].player1_id].total_matches = 2
       /\ players[matches[i].player2_id].total_matches = 2
\* match document m has player p on one of its sides
References(m, p) == m.player1_id = p \/ m.player2_id = p

\* the status update_match and delete_match answer with for match id m
UpdateMatchStatus(d, m, g1, g2) == Run(d, UpdateMatchReq(m, g1, g2)).r.status
DeleteMatchStatus(d, m) == Run(d, DeleteMatchReq(m)).r.status

\* delete_player(p) removed p and exactly the matches that reference p
Cascaded(p) ==
  /\ req'[1].status = 200
  /\ p \notin DOMAIN players'
  /\ \A m \in DOMAIN matches' : ~References(matches'[m], p)
  /\ \A m \in DOMAIN matches :
       ~References(matches[m], p)
         => m \in DOMAIN matches' /\ matches'[m] = matches[m]

\* C11: after a successful delete_player(P) no stored match references P,
\* P's record is gone, the matches not referencing P are all still stored,
\* and a later update_match or delete_match of a match id that referenced P
\* reports NotFound (404)
DeletePlayerCascade ==
  [][\A p \in PlayerIds :
       (req'[1].op = "delete_player" /\ p \in DOMAIN players
          /\ delete_player(1, p))
         => /\ Cascaded(p)
            /\ \A m \in DOMAIN matches :
                 References(matches[m], p)
                   => /\ DeleteMatchStatus(DB', m) = 404
                      /\ \A g1 \in Goals, g2 \in Goals :
                           UpdateMatchStatus(DB', m, g1, g2) = 404]_vars

\* the same, with update_match answering 400 for the removed matches
DeletePlayerCascadeBadRequest ==
  [][\A p \in PlayerIds :
       (req'[1].op = "delete_player" /\ p \in DOMAIN players
          /\ delete_player(1, p))
         => /\ Cascaded(p)
            /\ \A m \in DOMAIN matches :
                 References(matches[m], p)
                   => /\ DeleteMatchStatus(DB', m) = 404
                      /\ \A g1 \in Goals, g2 \in Goals :
                           UpdateMatchStatus(DB', m, g1, g2) = 400]_vars

\* C12: delete_player(P) leaves the aggregates of every player other than P
\* unchanged, the opponents whose matches against P the cascade removes
\* included
DeletePlayerKeepsOthers ==
  [][\A p \in PlayerIds :
       (req'[1].op = "delete_player" /\ delete_player(1, p))
         => \A q \in DOMAIN players \ {p} :
              q \in DOMAIN players' /\ players'[q] = players[q]]_vars

\* a player was deleted with its matches: no match is stored and the player
\* that is left still counts the two matches it played
OpponentKeepsAggregates ==
  /\ req[1].op = "delete_player" /\ req[1].status = 200
  /\ matches = NoDocs /\ nextMatchId = MaxMatches + 1
  /\ \E q \in DOMAIN players : players[q].total_matches = MaxMatches
\* the number of stored matches between a and b, in either order
MatchesBetween(a, b) ==
  Cardinality({m \in DOMAIN matches :
                 \/ matches[m].player1_id = a /\ matches[m].player2_id = b
                 \/ matches[m].player1_id = b /\ matches[m].player2_id = a})

\* head-to-head(a, b) on the store as it is
H2H(a, b) == HeadToHeadStats(DB, a, b)

\* C13 as claimed: for all registered players A and B,
\* head-to-head(A,B).player1_wins + head-to-head(B,A).player1_wins
\* + head-to-head(A,B).draws is the number of stored matches between A and B
HeadToHeadCountsMatches ==
  \A a \in DOMAIN players, b \in DOMAIN players :
    H2H(a, b).player1_wins + H2H(b, a).player1_wins + H2H(a, b).draws
      = MatchesBetween(a, b)

\* C13, amended: the same for all registered players A and B that are not
\* the same player; for a player A against itself player1_wins +
\* player2_wins + draws of head-to-head(A,A) is the number of stored matches
\* with A on both sides
HeadToHeadCountsMatchesOfPair ==
  \A a \in DOMAIN players, b \in DOMAIN players :
    IF a # b
    THEN H2H(a, b).player1_wins + H2H(b, a).player1_wins + H2H(a, b).draws
           = MatchesBetween(a, b)
    ELSE H2H(a, a).player1_wins + H2H(a, a).player2_wins + H2H(a, a).draws
           = MatchesBetween(a, a)

\* head-to-head answered for two different players with two matches between
\* them, one recorded in each order of the pair, each of them won by one
HeadToHeadBothOrders ==
  /\ req[1].op = "get_head_to_head_stats" /\ req[1].status = 200
  /\ req[1].p1 # req[1].p2
  /\ req[1].body.total_matches = 2
  /\ req[1].body.player1_wins = 1 /\ req[1].body.player2_wins = 1
  /\ \E m \in DOMAIN matches : matches[m].player1_id = req[1].p1
  /\ \E m \in DOMAIN matches : matches[m].player1_id = req[1].p2

\* the result for (a, b) is the result for (b, a) with the sides exchanged
Complements(x, y) ==
  /\ x.total_matches = y.total_matches
  /\ x.draws = y.draws
  /\ x.player1_wins = y.player2_wins
  /\ x.player2_wins = y.player1_wins
  /\ x.player1_goals = y.player2_goals
  /\ x.player2_goals = y.player1_goals

\* within one result the wins and the draws add up to the matches
AddsUp(x) == x.player1_wins + x.player2_wins + x.draws = x.total_matches

\* C14 as claimed: for all registered players A and B, head-to-head(A,B)
\* and head-to-head(B,A) report the same total_matches and draws, the
\* player1_wins and player1_goals of one are the player2_wins and
\* player2_goals of the other, and within a single result player1_wins +
\* player2_wins + draws == total_matches
HeadToHeadSymmetric ==
  \A a \in DOMAIN players, b \in DOMAIN players :
    Complements(H2H(a, b), H2H(b, a)) /\ AddsUp(H2H(a, b))

\* C14, amended: the exchange of the sides for all registered players A and
\* B that are not the same player, and the sum within a single result for
\* all registered A and B, A against itself included
HeadToHeadSymmetricOfPair ==
  \A a \in DOMAIN players, b \in DOMAIN players :
    /\ a # b => Complements(H2H(a, b), H2H(b, a))
    /\ AddsUp(H2H(a, b))

\* head-to-head answered for two different players with a match between
\* them in which the second of the two scored more goals
HeadToHeadSecondAhead ==
  /\ req[1].op = "get_head_to_head_stats" /\ req[1].status = 200
  /\ req[1].p1 # req[1].p2
  /\ req[1].body.player2_goals > req[1].body.player1_goals
  /\ req[1].body.player2_wins > 0
  /\ \E m \in DOMAIN matches : /\ matches[m].player1_id = req[1].p2
                              /\ matches[m].player2_id = req[1].p1
\* the stored matches of player p dated on or before day
MatchesUpTo(p, day) ==
  {m \in DOMAIN matches : References(matches[m], p) /\ matches[m].date <= day}

\* p won match document m: p's goals exceed the opponent's (a match of p
\* against itself is read from player1's side)
WonBy(m, p) ==
  IF m.player1_id = p THEN m.player1_goals > m.player2_goals
  ELSE m.player2_goals > m.player1_goals

\* one point for each date on which p has a match, the dates ascending: the
\* wins in the matches up to that date over the matches up to that date
ExpectedWinrate(p) ==
  LET dates == {matches[m].date : m \in MatchesUpTo(p, MaxDay)} IN
  [i \in 1..Cardinality(dates) |->
     LET day == CHOOSE x \in dates :
                  Cardinality({y \in dates : y < x}) = i - 1 IN
     [date |-> day,
      winrate |->
        Ratio(Cardinality({m \in MatchesUpTo(p, day) : WonBy(matches[m], p)}),
              Cardinality(MatchesUpTo(p, day)))]]

\* C15: for every player and match history the detailed stats have a
\* winrate_over_time of exactly one point per date on which the player has
\* a match, in ascending date order, the point for date d being the
\* player's wins in the matches dated on or before d divided by the number
\* of those matches
WinrateOverTime ==
  [][\A p \in PlayerIds :
       (req'[1].op = "get_player_detailed_stats" /\ p \in DOMAIN players
          /\ get_player_detailed_stats(1, p))
         => /\ req'[1].status = 200
            /\ req'[1].body.winrate_over_time = ExpectedWinrate(p)]_vars

\* the same for the requests that are answered
WinrateOverTimeWhenAnswered ==
  [][\A p \in PlayerIds :
       (req'[1].op = "get_player_detailed_stats" /\ p \in DOMAIN players
          /\ get_player_detailed_stats(1, p))
         => (req'[1].status = 200
               => req'[1].body.winrate_over_time = ExpectedWinrate(p))]_vars

\* detailed stats with a point for each of two days, the second one neither
\* 0 nor 1: a win and a loss are behind it
WinrateOverTwoDays ==
  /\ req[1].op = "get_player_detailed_stats" /\ req[1].status = 200
  /\ Len(req[1].body.winrate_over_time) = 2
  /\ req[1].body.winrate_over_time[2].winrate = [num |-> 1, den |-> 2]
\* the result record for a side that scored mine and conceded theirs
ResultOf(mine, theirs) ==
  [win |-> IF mine > theirs THEN 1 ELSE 0,
   loss |-> IF mine < theirs THEN 1 ELSE 0,
   draw |-> IF mine = theirs THEN 1 ELSE 0]

\* C16: for all non-negative goal counts and both perspectives get_result
\* returns a record with exactly one of win, loss, draw equal to 1 and the
\* others 0: win iff the perspective player's goals exceed the opponent's,
\* loss iff fewer, draw iff equal; the results of the two perspectives of a
\* score are mirror images; and the copy of backend/main.py and that of
\* app/utils/helpers.py agree
GetResultContract ==
  (req[1].op = "get_result" /\ req[1].pc = "done")
    => LET result == req[1].body.backend
           is_player1 == req[1].side = 1
           mine == IF is_player1 THEN req[1].g1 ELSE req[1].g2
           theirs == IF is_player1 THEN req[1].g2 ELSE req[1].g1
           other == get_result(req[1].g1, req[1].g2, ~is_player1) IN
       /\ DOMAIN result = {"win", "loss", "draw"}
       /\ \A f \in DOMAIN result : result[f] \in {0, 1}
       /\ result.win + result.loss + result.draw = 1
       /\ result = ResultOf(mine, theirs)
       /\ other.win = result.loss /\ other.loss = result.win
       /\ other.draw = result.draw
       /\ req[1].body.helpers = result

\* get_result has answered for player2's perspective of a drawn score
\* other than 0 - 0
ResultOfDrawForPlayer2 ==
  /\ req[1].op = "get_result" /\ req[1].pc = "done"
  /\ req[1].side = 2 /\ req[1].g1 = req[1].g2 /\ req[1].g1 > 0
  /\ req[1].body.backend.draw = 1
\* C17: register_player with the name of a stored player is rejected as a
\* duplicate (400), stores no new player and changes no stored player; a
\* successful register_player stores one new player, with that name and
\* with every aggregate 0
RegisterPlayerDuplicate ==
  [][\A name \in Names :
       (req'[1].op = "register_player" /\ register_player(1, name))
         => IF \E p \in DOMAIN players : players[p].name = name
            THEN /\ req'[1].status = 400
                 /\ req'[1].writes = 0
                 /\ players' = players
            ELSE /\ req'[1].status = 200
                 /\ req'[1].id \notin DOMAIN players
                 /\ DOMAIN players' = DOMAIN players \cup {req'[1].id}
                 /\ players'[req'[1].id].name = name
                 /\ \A f \in AggFields : players'[req'[1].id][f] = 0
                 /\ \A p \in DOMAIN players : players'[p] = players[p]]_vars

\* a registration was refused while a player with matches is stored and a
\* player can still be registered
DuplicateRefused ==
  /\ req[1].op = "register_player" /\ req[1].status = 400
  /\ nextPlayerId <= MaxPlayers
  /\ \E p \in DOMAIN players : players[p].total_matches > 0
\* the name a read shows for player id p: the stored name, or the
\* placeholder when no such player is stored
ShownName(p) == IF p \in DOMAIN players THEN players[p].name ELSE UnknownPlayer

\* the response is a list of exactly the matches S, each with its scores and
\* with the names of its players or their placeholders
Lists(S) ==
  /\ req'[1].status = 200
  /\ {req'[1].body.list[i].id : i \in 1..Len(req'[1].body.list)} = S
  /\ Len(req'[1].body.list) = Cardinality(S)
  /\ \A i \in 1..Len(req'[1].body.list) :
       LET shown == req'[1].body.list[i]
           match == matches[shown.id] IN
       /\ shown.player1_name = ShownName(match.player1_id)
       /\ shown.player2_name = ShownName(match.player2_id)
       /\ shown.player1_goals = match.player1_goals
       /\ shown.player2_goals = match.player2_goals

\* the lists of matches complete, whatever players are missing
ListsDegrade ==
  [][/\ (req'[1].op = "get_matches" /\ get_matches(1))
          => Lists(DOMAIN matches)
     /\ \A p \in PlayerIds :
          (req'[1].op = "get_player_matches" /\ get_player_matches(1, p))
            => Lists({m \in DOMAIN matches : References(matches[m], p)})]_vars

\* C18: the reads over matches (the list of all matches, the list of a
\* player's matches, the detailed stats of a player) do not fail when a
\* stored match references a player that no longer exists: the read
\* completes, with a placeholder for the name of the missing player
ReadsDegrade ==
  [][/\ (req'[1].op = "get_matches" /\ get_matches(1))
          => Lists(DOMAIN matches)
     /\ \A p \in PlayerIds :
          /\ (req'[1].op = "get_player_matches" /\ get_player_matches(1, p))
               => Lists({m \in DOMAIN matches : References(matches[m], p)})
          /\ (req'[1].op = "get_player_detailed_stats"
                /\ p \in DOMAIN players
                /\ get_player_detailed_stats(1, p))
               => req'[1].status = 200]_vars

\* a list of matches was answered with a placeholder in it
ListedWithPlaceholder ==
  /\ req[1].op = "get_matches" /\ req[1].status = 200
  /\ \E i \in 1..Len(req[1].body.list) :
       req[1].body.list[i].player2_name = UnknownPlayer
\* update_match or delete_match was refused with status and wrote nothing
Refused(status) ==
  /\ req'[1].status = status
  /\ req'[1].writes = 0
  /\ UNCHANGED <<players, matches>>

\* C19: update_match and delete_match called with a match id that resolves
\* to no stored match each report NotFound (404), not InvalidInput or any
\* other kind, and write nothing
MissingMatchNotFound ==
  [][\A m \in MatchIds :
       m \notin DOMAIN matches
         => /\ (req'[1].op = "delete_match" /\ delete_match(1, m))
                 => Refused(404)
            /\ \A g1 \in Scores, g2 \in Scores :
                 (req'[1].op = "update_match" /\ update_match(1, m, g1, g2))
                   => Refused(404)]_vars

\* the same, with the status update_match answers with: 400
MissingMatchRefused ==
  [][\A m \in MatchIds :
       m \notin DOMAIN matches
         => /\ (req'[1].op = "delete_match" /\ delete_match(1, m))
                 => Refused(404)
            /\ \A g1 \in Scores, g2 \in Scores :
                 (req'[1].op = "update_match" /\ update_match(1, m, g1, g2))
                   => Refused(400)]_vars
\* the opponent of p in match document m
OpponentOf(m, p) == IF m.player1_id = p THEN m.player2_id ELSE m.player1_id

\* p lost match document m (read as WonBy reads it)
LostBy(m, p) ==
  IF m.player1_id = p THEN m.player1_goals < m.player2_goals
  ELSE m.player2_goals < m.player1_goals

\* the stored matches p won, and lost, against opponent o
WinsAgainst(p, o) ==
  {m \in DOMAIN matches : /\ References(matches[m], p)
                          /\ OpponentOf(matches[m], p) = o
                          /\ WonBy(matches[m], p)}
LossesAgainst(p, o) ==
  {m \in DOMAIN matches : /\ References(matches[m], p)
                          /\ OpponentOf(matches[m], p) = o
                          /\ LostBy(matches[m], p)}

\* match m comes no later than match n in the date-ascending order
NoLater(m, n) ==
  \/ matches[m].date < matches[n].date
  \/ matches[m].date = matches[n].date /\ m <= n

\* the first of the matches S in the date-ascending order
FirstOf(S) == CHOOSE m \in S : \A n \in S : NoLater(m, n)

\* highest is None when Against(o) is empty for every opponent o; otherwise
\* it names an opponent with the greatest number of matches in Against, with
\* that number, and among the opponents with that number the one whose
\* first match in Against is the earliest
HighestAsClaimed(highest, Against(_)) ==
  LET opponents == {o \in PlayerIds : Against(o) # {}} IN
  IF opponents = {} THEN highest = None
  ELSE \E o \in opponents :
         /\ o \in DOMAIN players
         /\ highest = [name |-> players[o].name,
                       count |-> Cardinality(Against(o))]
         /\ \A o2 \in opponents :
              /\ Cardinality(Against(o2)) <= Cardinality(Against(o))
              /\ Cardinality(Against(o2)) = Cardinality(Against(o))
                   => NoLater(FirstOf(Against(o)), FirstOf(Against(o2)))

\* the detailed stats of p are answered with both entries as claimed
HighestOf(p) ==
  LET Won(o) == WinsAgainst(p, o)
      Lost(o) == LossesAgainst(p, o) IN
  /\ HighestAsClaimed(req'[1].body.highest_wins_against, Won)
  /\ HighestAsClaimed(req'[1].body.highest_losses_against, Lost)

\* C20: in the detailed stats highest_wins_against (highest_losses_against)
\* is absent when the player has no win (loss), and otherwise names an
\* opponent against whom the player's count of won (lost) matches is maximal
\* over all opponents, with that count; of several opponents with the
\* maximum the one against whom the first win (loss) is the earliest
HighestAgainst ==
  [][\A p \in PlayerIds :
       (req'[1].op = "get_player_detailed_stats" /\ p \in DOMAIN players
          /\ get_player_detailed_stats(1, p))
         => req'[1].status = 200 /\ HighestOf(p)]_vars

\* the same for the requests that are answered
HighestAgainstWhenAnswered ==
  [][\A p \in PlayerIds :
       (req'[1].op = "get_player_detailed_stats" /\ p \in DOMAIN players
          /\ get_player_detailed_stats(1, p))
         => (req'[1].status = 200 => HighestOf(p))]_vars

\* no two stored players have the same name
UniqueNames ==
  \A p \in DOMAIN players, q \in DOMAIN players :
    players[p].name = players[q].name => p = q

\* the same for the requests that are answered while the names of the stored
\* players are all different
HighestAgainstUniqueNames ==
  [][\A p \in PlayerIds :
       (req'[1].op = "get_player_detailed_stats" /\ p \in DOMAIN players
          /\ get_player_detailed_stats(1, p))
         => ((req'[1].status = 200 /\ UniqueNames) => HighestOf(p))]_vars
\* the store with the stored players as they were registered and no match
Registered ==
  [DB EXCEPT !.players = [p \in DOMAIN players |-> NewPlayer(players[p].name)],
             !.matches = NoDocs, !.nextMatchId = 1]

\* the record_match request that stored match m
RecordedAs(m) ==
  RecordMatchReq(matches[m].player1_id, matches[m].player2_id,
                 matches[m].player1_goals, matches[m].player2_goals)

\* the players after the requests of the stored matches `first` and `second`
\* are served one after the other
OneAfterTheOther(first, second) ==
  Run(Run(Registered, RecordedAs(first)).db, RecordedAs(second)).db.players

\* both slots have answered a record_match request and two matches are stored
BothRecorded ==
  /\ \A s \in Slots : req[s].op = "record_match" /\ req[s].pc = "done"
                      /\ req[s].status = 200
  /\ DOMAIN matches = {1, 2}

\* C21: once two record_match requests that share players have both
\* completed, however their store calls interleaved, every player's
\* aggregates are those of serving the two requests one after the other, in
\* either order
ConcurrentRecordsAsSequential ==
  BothRecorded =>
    /\ players = OneAfterTheOther(1, 2)
    /\ players = OneAfterTheOther(2, 1)

\* the request received second stored its match first, and the two matches
\* share both players
RecordedInterleaved ==
  /\ BothRecorded
  /\ req[2].id = 1
  /\ req[1].id = 2
  /\ matches[1].player1_id = matches[2].player2_id
  /\ matches[1].player2_id = matches[2].player1_id
  /\ matches[1].player1_id # matches[1].player2_id
  /\ matches[1].player1_goals > matches[1].player2_goals
\* both slots have answered an update_match request for the same match
BothEdited ==
  /\ \A s \in Slots : req[s].op = "update_match" /\ req[s].pc = "done"
                      /\ req[s].status = 200
  /\ req[1].id = req[2].id

\* C22: once two update_match requests on the same match have both
\* completed, however their store calls (read the match, write the scores,
\* increment player1, increment player2) interleaved, the aggregates of the
\* players are those of the scores finally stored, as after serving the two
\* requests one after the other
ConcurrentEditsConsistent == BothEdited => AggregatesMatchLog
\* a record_match (slot 1) and a delete_player (slot 2) have both answered
RecordedAndDeleted ==
  /\ req[1].op = "record_match" /\ req[1].pc = "done"
  /\ req[2].op = "delete_player" /\ req[2].pc = "done"

\* C23: once a record_match and a delete_player of one of its players have
\* both completed, however their store calls interleaved, no stored match
\* references a player that is not stored, and a record_match that answered
\* with success has incremented both players of the match it stored
RecordWithDeleteConsistent ==
  RecordedAndDeleted =>
    /\ \A m \in DOMAIN matches :
         /\ matches[m].player1_id \in DOMAIN players
         /\ matches[m].player2_id \in DOMAIN players
    /\ (req[1].status = 200 /\ req[1].id \in DOMAIN matches) =>
         \A p \in {matches[req[1].id].player1_id,
                   matches[req[1].id].player2_id} :
           p \in DOMAIN players /\ players[p].total_matches >= 1
\* every stored match as a list of documents
StoredMatches ==
  LET ids == ByDate(matches, DOMAIN matches) IN
  [i \in 1..Len(ids) |-> matches[ids[i]]]

\* every stored match is between two different players
DistinctSides ==
  \A m \in DOMAIN matches : matches[m].player1_id # matches[m].player2_id

\* C24: after any registrations, record_match requests between two different
\* registered players and update_match requests (no deletion), the stored
\* aggregates of every player are calculate_tournament_stats of the player
\* over all the stored matches
AggregatesAreTournamentStats ==
  DistinctSides =>
    \A p \in DOMAIN players : \A f \in AggFields :
      players[p][f] = calculate_tournament_stats(p, StoredMatches)[f]

\* the score of one of two stored matches between different players has been
\* edited, and a player has won both
EditedLog ==
  /\ req[1].op = "update_match" /\ req[1].status = 200 /\ req[1].writes = 3
  /\ DOMAIN matches = {1, 2}
  /\ DistinctSides
  /\ \E p \in DOMAIN players : players[p].wins = 2
\* C25: after any sequence of register_player, record_match, update_match,
\* delete_match and delete_player requests the code accepts, matches of a
\* player against itself and any goal counts record_match accepts included,
\* no stored player has a negative total_matches, wins, losses, draws,
\* points, total_goals_scored or total_goals_conceded
AggregatesNonNegative ==
  \A p \in DOMAIN players :
    \A f \in AggFields \ {"goal_difference"} : players[p][f] >= 0
\* the sum of aggregate f over the stored players ids
RECURSIVE Sum(_, _)
Sum(ids, f) ==
  IF ids = {} THEN 0
  ELSE LET p == CHOOSE i \in ids : TRUE IN players[p][f] + Sum(ids \ {p}, f)

ZeroSum ==
  /\ Sum(DOMAIN players, "wins") = Sum(DOMAIN players, "losses")
  /\ Sum(DOMAIN players, "total_goals_scored")
       = Sum(DOMAIN players, "total_goals_conceded")
  /\ Sum(DOMAIN players, "goal_difference") = 0
  /\ Sum(DOMAIN players, "total_matches") = 2 * Cardinality(DOMAIN matches)

\* C26: after any registrations, record_match and update_match requests (no
\* deletion) the aggregates are zero-sum over the stored players: as many
\* wins as losses, as many goals scored as conceded, goal differences that
\* add up to 0 and twice as many matches played as matches stored
AggregatesZeroSum == ZeroSum
\* C27: after any sequence or interleaving of register_player, update_player
\* and delete_player requests no two stored players have the same name
PlayerNamesUnique ==
  \A p \in DOMAIN players, q \in DOMAIN players :
    p # q => players[p].name # players[q].name
====
